---- MODULE Spec2Model ----
(***************************************************************************)
(* AppliedGo/rest: a tiny REST server over an in-memory map.               *)
(*                                                                         *)
(* The repository holds two builds of the same server:                     *)
(*   "rest"  - src/rest.go: the map lives in `s.data`, guarded by the      *)
(*             sync.RWMutex `s.m`;                                         *)
(*   "video" - src/unnamed/part_000: the version shown in the video, a     *)
(*             global `data` map accessed with no lock at all.             *)
(* Each behaviour of the model runs one of the two builds (`version`).     *)
(* Every HTTP request is one handler goroutine; goroutines interleave at   *)
(* statement granularity, and a map access has a begin and an end so that  *)
(* overlapping accesses are visible.                                       *)
(***************************************************************************)
EXTENDS Naturals, Sequences, FiniteSets, TLC

\* ------------------------------------------------------------------ bounds
\* Number of handler goroutines running at the same time (the number of requests
\* served in one behaviour is not bounded: a returned handler's slot is reused).
MaxActive == 2

\* Path parameters the router can hand to a handler, in ascending order
\* ("" is what ByName returns for the /list route, which has no :key).
KeyOrder == <<"", "a">>
Keys == {KeyOrder[i] : i \in 1..Len(KeyOrder)}
Vals == {"", "x"}
Versions == {"rest", "video"}

Handlers == 1..MaxActive

VARIABLES
    version,   \* which build runs
    data,      \* the map: s.data (rest) / data (video)
    wHolder,   \* s.m: the writer that holds, or is draining readers for, the lock (0: none)
    rHolders,  \* s.m: the handlers holding the read lock
    op,        \* per handler: "show" / "update" / "none"
    key,       \* per handler: k := p.ByName("key")
    val,       \* per handler: v := p.ByName("value")
    pc,        \* per handler: the statement it executes next
    got,       \* per handler: the value operand read from the map (data[k])
    acc,       \* per handler: the entries the %v rendering has visited so far
    kind,      \* per handler: which response it produced
    body,      \* per handler: the response body written to w
    written,   \* history: for every key assigned so far, the value last assigned
    stale,     \* history, per handler: what it reads or wrote was assigned again since
    overlapped, \* history, per handler: it ran while another handler was running
    same,      \* history, per handler: its assignment stored the value the key already had
    tainted,   \* handlers whose map access overlapped a conflicting access
    raced,     \* a data race on the map has happened
    crashed,   \* the runtime aborted the process (fatal error: concurrent map ...)
    lastLocked, \* history: for every key, the value of the update that last got the write lock
    snaps,     \* history, per handler: the contents the store had while it walked the map
    early      \* history, per handler: the store was assigned between its start and its walk

vars == <<version, data, wHolder, rHolders, op, key, val, pc, got, acc,
          kind, body, written, stale, overlapped, same, tainted, raced, crashed,
          lastLocked, snaps, early>>

\* ---------------------------------------------------------------- the map
EmptyMap == [k \in {} |-> ""]

\* Mutant of Lookup: a missing key reads as the key itself instead of "".
LookupMissingAsKey(m, k) == IF k \in DOMAIN m THEN m[k] ELSE k

\* s.data[k] as an rvalue: the zero value "" for a missing key.
Lookup(m, k) == IF k \in DOMAIN m THEN m[k] ELSE ""

\* Mutant of MapAssign: an existing entry keeps its old value.
MapAssignKeepOld(m, k, v) ==
    [x \in DOMAIN m \cup {k} |-> IF x \in DOMAIN m THEN m[x] ELSE v]

\* Mutant of MapAssign: an empty key or an empty value is rejected.
MapAssignNonEmpty(m, k, v) ==
    IF k = "" \/ v = "" THEN m
    ELSE [x \in DOMAIN m \cup {k} |-> IF x = k THEN v ELSE m[x]]

\* Mutant of MapAssign: an existing entry is appended to instead of overwritten.
MapAssignAppend(m, k, v) ==
    [x \in DOMAIN m \cup {k} |->
        IF x # k THEN m[x] ELSE IF k \in DOMAIN m THEN m[k] \o v ELSE v]

\* Mutant of MapAssign: the assignment drops every other entry of the map.
MapAssignOnly(m, k, v) == [x \in {k} |-> v]

\* s.data[k] = v
MapAssign(m, k, v) == [x \in DOMAIN m \cup {k} |-> IF x = k THEN v ELSE m[x]]

\* What a map can hold after unsynchronised concurrent access.
ArbMaps == UNION {[S -> Vals] : S \in SUBSET Keys}

\* ------------------------------------------------------------- formatting
RECURSIVE FmtEntries(_, _)
FmtEntries(m, i) ==
    IF i > Len(KeyOrder) THEN ""
    ELSE LET k == KeyOrder[i]
             rest == FmtEntries(m, i + 1)
         IN IF k \in DOMAIN m
            THEN k \o ":" \o m[k] \o (IF rest = "" THEN "" ELSE " " \o rest)
            ELSE rest

\* fmt's %v of a map[string]string: map[k1:v1 k2:v2], keys ascending.
FormatMap(m) == "map[" \o FmtEntries(m, 1) \o "]"

\* The data store's name as the format strings spell it.
StoreName(ver) == IF ver = "rest" THEN "s.data" ELSE "data"

ListBody(m) == "Read list: " \o FormatMap(m)

EntryBody(ver, k, v) == "Read entry: " \o StoreName(ver) \o "[" \o k \o "] = " \o v

UpdateBody(ver, k, v) == "Updated: " \o StoreName(ver) \o "[" \o k \o "] = " \o v

\* ------------------------------------------------------------------- init
Init ==
    /\ version \in Versions
    /\ data = EmptyMap
    /\ wHolder = 0
    /\ rHolders = {}
    /\ op = [h \in Handlers |-> "none"]
    /\ key = [h \in Handlers |-> ""]
    /\ val = [h \in Handlers |-> ""]
    /\ pc = [h \in Handlers |-> "idle"]
    /\ got = [h \in Handlers |-> ""]
    /\ acc = [h \in Handlers |-> EmptyMap]
    /\ kind = [h \in Handlers |-> "none"]
    /\ body = [h \in Handlers |-> ""]
    /\ written = EmptyMap
    /\ stale = [h \in Handlers |-> FALSE]
    /\ overlapped = [h \in Handlers |-> FALSE]
    /\ same = [h \in Handlers |-> FALSE]
    /\ tainted = {}
    /\ raced = FALSE
    /\ crashed = FALSE
    /\ lastLocked = EmptyMap
    /\ snaps = [h \in Handlers |-> {}]
    /\ early = [h \in Handlers |-> FALSE]

Active == {h \in Handlers : pc[h] \notin {"idle", "done"}}

InWrite == {h \in Handlers : pc[h] = "inassign"}
InRead == {h \in Handlers : pc[h] \in {"inlookup", "inrange"}}

\* ------------------------------------------------------ request dispatch
\* The first statement of show once k is known.
ShowEntry(ver, k) ==
    IF ver = "rest" THEN "rlock" ELSE IF k = "" THEN "range" ELSE "lookup"

\* The first statement of update once k and v are known.
UpdateEntry(ver) == IF ver = "rest" THEN "lock" ELSE "assign"

\* The router invokes handler h for a new request.  A behaviour follows a corrupted
\* map only until the handlers then running have returned: no request is accepted
\* after a data race.
Invoke(h, o, k, v, first) ==
    /\ ~crashed
    /\ ~raced
    /\ h \in Handlers \ Active
    /\ \A i \in Handlers \ Active : h <= i
    /\ op' = [op EXCEPT ![h] = o]
    /\ key' = [key EXCEPT ![h] = k]
    /\ val' = [val EXCEPT ![h] = v]
    /\ pc' = [pc EXCEPT ![h] = first]
    /\ got' = [got EXCEPT ![h] = ""]
    /\ acc' = [acc EXCEPT ![h] = EmptyMap]
    /\ kind' = [kind EXCEPT ![h] = "none"]
    /\ body' = [body EXCEPT ![h] = ""]
    /\ stale' = [stale EXCEPT ![h] = FALSE]
    /\ same' = [same EXCEPT ![h] = FALSE]
    /\ overlapped' = [i \in Handlers |->
                          IF i = h THEN Active # {}
                          ELSE IF i \in Active THEN TRUE
                          ELSE overlapped[i]]
    /\ snaps' = [snaps EXCEPT ![h] = {}]
    /\ early' = [early EXCEPT ![h] = FALSE]
    /\ UNCHANGED <<version, data, wHolder, rHolders, written, tainted, raced, crashed,
                   lastLocked>>

\* GET /list and GET /entry/:key
StartShow(h, k) == Invoke(h, "show", k, "", ShowEntry(version, k))

\* PUT /entry/:key/:value
StartUpdate(h, k, v) == Invoke(h, "update", k, v, UpdateEntry(version))

\* ------------------------------------------------------------ s.m (rest)
\* The statement after s.m.RLock() in show.
AfterRLock(k) == IF k = "" THEN "range" ELSE "lookup"

\* RLock goes through when no writer holds or waits for the lock.
CanRLock == wHolder = 0

RLock(h) ==
    /\ ~crashed
    /\ pc[h] = "rlock"
    /\ IF CanRLock
       THEN /\ rHolders' = rHolders \cup {h}
            /\ pc' = [pc EXCEPT ![h] = AfterRLock(key[h])]
       ELSE /\ pc' = [pc EXCEPT ![h] = "rwait"]
            /\ UNCHANGED rHolders
    /\ UNCHANGED <<version, data, wHolder, op, key, val, got, acc, kind, body, written,
                   stale, tainted, raced, crashed, overlapped, same,
                   lastLocked, snaps, early>>

RUnlock(h) ==
    /\ ~crashed
    /\ pc[h] = "runlock"
    /\ rHolders' = rHolders \ {h}
    /\ pc' = [pc EXCEPT ![h] = "done"]
    /\ UNCHANGED <<version, data, wHolder, op, key, val, got, acc, kind, body, written,
                   stale, tainted, raced, crashed, overlapped, same,
                   lastLocked, snaps, early>>

\* Lock, first half: become the one pending writer; later RLock calls block.
LockCall(h) ==
    /\ ~crashed
    /\ pc[h] = "lock"
    /\ wHolder = 0
    /\ wHolder' = h
    /\ pc' = [pc EXCEPT ![h] = "lockwait"]
    /\ UNCHANGED <<version, data, rHolders, op, key, val, got, acc, kind, body, written,
                   stale, tainted, raced, crashed, overlapped, same,
                   lastLocked, snaps, early>>

\* Lock returns once the readers that were inside have left.
CanLock == rHolders = {}

LockAcquire(h) ==
    /\ ~crashed
    /\ pc[h] = "lockwait"
    /\ wHolder = h
    /\ CanLock
    /\ pc' = [pc EXCEPT ![h] = "assign"]
    /\ lastLocked' = [x \in DOMAIN lastLocked \cup {key[h]} |->
                          IF x = key[h] THEN val[h] ELSE lastLocked[x]]
    /\ UNCHANGED <<version, data, wHolder, rHolders, op, key, val, got, acc, kind, body,
                   written, stale, tainted, raced, crashed, overlapped, same,
                   snaps, early>>

\* Unlock releases the lock and lets in every reader that blocked meanwhile.
Unlock(h) ==
    /\ ~crashed
    /\ pc[h] = "unlock"
    /\ wHolder' = 0
    /\ LET woken == {i \in Handlers : pc[i] = "rwait"}
       IN /\ rHolders' = woken
          /\ pc' = [i \in Handlers |->
                      IF i = h THEN "fprintf"
                      ELSE IF i \in woken THEN AfterRLock(key[i])
                      ELSE pc[i]]
    /\ UNCHANGED <<version, data, op, key, val, got, acc, kind, body, written, stale,
                   tainted, raced, crashed, overlapped, same,
                   lastLocked, snaps, early>>

\* --------------------------------------------------------- map accesses
\* The accesses in progress that a new write conflicts with.
WriteConflicts(h) == (InWrite \cup InRead) \ {h}

\* The accesses in progress that a new read conflicts with.
ReadConflicts(h) == InWrite \ {h}

\* Entering a map access: a conflicting access in progress is a data race.
Enter(h, conflicts) ==
    /\ tainted' = IF conflicts = {} THEN tainted ELSE tainted \cup {h} \cup conflicts
    /\ raced' = (raced \/ conflicts # {})

\* Mutant of AfterAssign: update prints its response before it unlocks.
AfterAssignNoUnlock(ver) == IF ver = "rest" THEN "fprintf" ELSE "lookup"

\* The statement after the assignment in update.
AfterAssign(ver) == IF ver = "rest" THEN "unlock" ELSE "lookup"

\* Handler (o, k) reads or wrote the entry of key x: all of them for the list.
Reads(o, k, x) == k = x \/ (o = "show" /\ k = "")

\* s.data[k] = v begins (runtime mapassign).
AssignBegin(h) ==
    /\ ~crashed
    /\ pc[h] = "assign"
    /\ Enter(h, WriteConflicts(h))
    /\ pc' = [pc EXCEPT ![h] = "inassign"]
    /\ UNCHANGED <<version, data, wHolder, rHolders, op, key, val, got, acc, kind, body,
                   written, stale, crashed, overlapped, same,
                   lastLocked, snaps, early>>

\* s.data[k] = v completes; a raced assignment leaves the map in any state.
AssignEnd(h) ==
    /\ ~crashed
    /\ pc[h] = "inassign"
    /\ IF h \in tainted
       THEN data' \in ArbMaps
       ELSE data' = MapAssign(data, key[h], val[h])
    /\ written' = [x \in DOMAIN written \cup {key[h]} |->
                       IF x = key[h] THEN val[h] ELSE written[x]]
    /\ stale' = [i \in Handlers |->
                     IF i = h THEN FALSE
                     ELSE IF pc[i] # "idle" /\ Reads(op[i], key[i], key[h]) THEN TRUE
                     ELSE stale[i]]
    /\ same' = [same EXCEPT ![h] = key[h] \in DOMAIN written /\ written[key[h]] = val[h]]
    /\ tainted' = tainted \ {h}
    /\ pc' = [pc EXCEPT ![h] = AfterAssign(version)]
    /\ snaps' = [i \in Handlers |->
                     IF pc[i] = "inrange" THEN snaps[i] \cup {data'} ELSE snaps[i]]
    /\ UNCHANGED <<version, wHolder, rHolders, op, key, val, got, acc, kind, body,
                   raced, crashed, overlapped,
                   lastLocked, early>>

\* The operand s.data[k] / data[k] of Fprintf begins to be evaluated.
LookupBegin(h) ==
    /\ ~crashed
    /\ pc[h] = "lookup"
    /\ Enter(h, ReadConflicts(h))
    /\ pc' = [pc EXCEPT ![h] = "inlookup"]
    /\ UNCHANGED <<version, data, wHolder, rHolders, op, key, val, got, acc, kind, body,
                   written, stale, crashed, overlapped, same,
                   lastLocked, snaps, early>>

\* The operand is evaluated; a raced read yields any value.
LookupEnd(h) ==
    /\ ~crashed
    /\ pc[h] = "inlookup"
    /\ IF h \in tainted
       THEN got' \in [Handlers -> Vals] /\ \A i \in Handlers \ {h} : got'[i] = got[i]
       ELSE got' = [got EXCEPT ![h] = Lookup(data, key[h])]
    /\ tainted' = tainted \ {h}
    /\ pc' = [pc EXCEPT ![h] = "fprintf"]
    /\ UNCHANGED <<version, data, wHolder, rHolders, op, key, val, acc, kind, body,
                   written, stale, raced, crashed, overlapped, same,
                   lastLocked, snaps, early>>

\* The value operand of update's Fprintf: v in rest.go, data[k] in the video build.
UpdateOperand(ver, v, g) == IF ver = "rest" THEN v ELSE g

\* Mutant of AfterFprintf: show returns without releasing the read lock.
AfterFprintfNoRUnlock(ver, o) == "done"

\* The statement after Fprintf: show in rest.go still has to RUnlock.
AfterFprintf(ver, o) == IF ver = "rest" /\ o = "show" THEN "runlock" ELSE "done"

\* fmt.Fprintf(w, "Read entry: ...", k, s.data[k]) / fmt.Fprintf(w, "Updated: ...", k, v)
Fprintf(h) ==
    /\ ~crashed
    /\ pc[h] = "fprintf"
    /\ IF op[h] = "show"
       THEN /\ body' = [body EXCEPT ![h] = EntryBody(version, key[h], got[h])]
            /\ kind' = [kind EXCEPT ![h] = "entry"]
       ELSE /\ body' = [body EXCEPT ![h] =
                          UpdateBody(version, key[h], UpdateOperand(version, val[h], got[h]))]
            /\ kind' = [kind EXCEPT ![h] = "updated"]
    /\ pc' = [pc EXCEPT ![h] = AfterFprintf(version, op[h])]
    /\ UNCHANGED <<version, data, wHolder, rHolders, op, key, val, got, acc, written,
                   stale, tainted, raced, crashed, overlapped, same,
                   lastLocked, snaps, early>>

\* fmt.Fprintf(w, "Read list: %v", s.data): the rendering starts to walk the map.
RangeBegin(h) ==
    /\ ~crashed
    /\ pc[h] = "range"
    /\ Enter(h, ReadConflicts(h))
    /\ acc' = [acc EXCEPT ![h] = EmptyMap]
    /\ pc' = [pc EXCEPT ![h] = "inrange"]
    /\ snaps' = [snaps EXCEPT ![h] = {data}]
    /\ early' = [early EXCEPT ![h] = stale[h]]
    /\ UNCHANGED <<version, data, wHolder, rHolders, op, key, val, got, kind, body,
                   written, stale, crashed, overlapped, same,
                   lastLocked>>

\* Mutant of Unvisited: the walk leaves out the entry of the empty key.
UnvisitedNonEmpty(m, a) == (DOMAIN m \ DOMAIN a) \ {""}

\* The entries of the map the walk has not visited yet.
Unvisited(m, a) == DOMAIN m \ DOMAIN a

\* The walk visits one more entry (map iteration order is unspecified).
RangeNext(h) ==
    /\ ~crashed
    /\ pc[h] = "inrange"
    /\ \E k \in Unvisited(data, acc[h]) :
          acc' = [acc EXCEPT ![h] = MapAssign(acc[h], k, data[k])]
    /\ UNCHANGED <<version, data, wHolder, rHolders, op, key, val, pc, got, kind, body,
                   written, stale, tainted, raced, crashed, overlapped, same,
                   lastLocked, snaps, early>>

\* The walk is over and the list is written; a raced walk has seen anything.
RangeEnd(h) ==
    /\ ~crashed
    /\ pc[h] = "inrange"
    /\ Unvisited(data, acc[h]) = {}
    /\ \E a \in (IF h \in tainted THEN ArbMaps ELSE {acc[h]}) :
          /\ acc' = [acc EXCEPT ![h] = a]
          /\ body' = [body EXCEPT ![h] = ListBody(a)]
    /\ kind' = [kind EXCEPT ![h] = "list"]
    /\ tainted' = tainted \ {h}
    /\ pc' = [pc EXCEPT ![h] = AfterFprintf(version, op[h])]
    /\ snaps' = [snaps EXCEPT ![h] = {}]
    /\ early' = [early EXCEPT ![h] = FALSE]
    /\ UNCHANGED <<version, data, wHolder, rHolders, op, key, val, got, written, stale,
                   raced, crashed, overlapped, same,
                   lastLocked>>

\* The runtime notices the concurrent map access and aborts the process.
Crash ==
    /\ ~crashed
    /\ tainted # {}
    /\ crashed' = TRUE
    /\ UNCHANGED <<version, data, wHolder, rHolders, op, key, val, pc, got, acc, kind,
                   body, written, stale, tainted, raced, overlapped, same,
                   lastLocked, snaps, early>>

\* ------------------------------------------------------------------- next
\* A request arrives.
Accept ==
    \/ \E h \in Handlers, k \in Keys : StartShow(h, k)
    \/ \E h \in Handlers, k \in Keys, v \in Vals : StartUpdate(h, k, v)

\* A handler executes its next statement on the map or the response.
Serve ==
    \/ \E h \in Handlers : AssignBegin(h)
    \/ \E h \in Handlers : AssignEnd(h)
    \/ \E h \in Handlers : LookupBegin(h)
    \/ \E h \in Handlers : LookupEnd(h)
    \/ \E h \in Handlers : Fprintf(h)
    \/ \E h \in Handlers : RangeBegin(h)
    \/ \E h \in Handlers : RangeNext(h)
    \/ \E h \in Handlers : RangeEnd(h)

\* A handler executes a call on s.m.
Locking ==
    \/ \E h \in Handlers : RLock(h)
    \/ \E h \in Handlers : RUnlock(h)
    \/ \E h \in Handlers : LockCall(h)
    \/ \E h \in Handlers : LockAcquire(h)
    \/ \E h \in Handlers : Unlock(h)

Next == Accept \/ Serve \/ Locking \/ Crash

\* Both builds.
Spec == Init /\ [][Next]_vars

\* src/rest.go alone (it never reaches Crash: see ExclusionInRest).
InitRest == Init /\ version = "rest"
NextRest == Accept \/ Serve \/ Locking
SpecRest == InitRest /\ [][NextRest]_vars

\* The next statement of handler h, once the router has invoked it.
Step(h) ==
    \/ AssignBegin(h) \/ AssignEnd(h) \/ LookupBegin(h) \/ LookupEnd(h) \/ Fprintf(h)
    \/ RangeBegin(h) \/ RangeNext(h) \/ RangeEnd(h)
    \/ RLock(h) \/ RUnlock(h) \/ LockCall(h) \/ LockAcquire(h) \/ Unlock(h)

\* Scheduling of src/rest.go: the Go scheduler keeps running every goroutine that
\* can run, and a goroutine that calls s.m.Lock() gets the writer mutex
\* although other writers keep taking it (sync.Mutex hands the mutex to a
\* waiter that has been starving).  Requests arrive as they please.
Fairness == \A h \in Handlers : WF_vars(Step(h)) /\ SF_vars(LockCall(h))

\* src/rest.go under that scheduling.
SpecRestFair == InitRest /\ [][NextRest]_vars /\ Fairness

\* ------------------------------------------------------------ type sanity
TypeOK ==
    /\ version \in Versions
    /\ data \in ArbMaps
    /\ wHolder \in {0} \cup Handlers
    /\ rHolders \subseteq Handlers
    /\ \A h \in Handlers : key[h] \in Keys /\ val[h] \in Vals /\ got[h] \in Vals
    /\ written \in ArbMaps
    /\ stale \in [Handlers -> BOOLEAN]
    /\ overlapped \in [Handlers -> BOOLEAN]
    /\ same \in [Handlers -> BOOLEAN]
    /\ lastLocked \in ArbMaps
    /\ \A h \in Handlers : snaps[h] \subseteq ArbMaps
    /\ early \in [Handlers -> BOOLEAN]

\* ------------------------------------------------------------- properties
Done(h) == pc[h] = "done"

\* The handler has completed its assignment s.data[k] = v.
Assigned(h) == op[h] = "update" /\ pc[h] \in {"unlock", "lookup", "inlookup", "fprintf", "done"}

\* The handler is inside fmt.Fprintf, producing its response.
AtFprintf(h) == pc[h] \in {"fprintf", "inrange"}

\* At most one writer inside the map, and no reader inside while a writer is.
Exclusion ==
    /\ Cardinality(InWrite) <= 1
    /\ InWrite # {} => InRead = {}

\* src/rest.go keeps Exclusion, never races on the map and never crashes.
ExclusionInRest == version = "rest" => (Exclusion /\ ~raced /\ ~crashed /\ tainted = {})

\* C1 as stated: for every key k, the empty key included, a show(k) that ran
\* after the last assignment to k returns the value last assigned to k.
C1_ReadAfterWriteAnyKey ==
    ~raced =>
        \A h \in Handlers :
            (Done(h) /\ op[h] = "show" /\ key[h] \in DOMAIN written /\ ~stale[h])
                => body[h] = EntryBody(version, key[h], written[key[h]])

\* C1 amended: for every non-empty key k, a show(k) that ran after the last
\* assignment to k returns the value last assigned to k.
C1_ReadAfterWrite ==
    ~raced =>
        \A h \in Handlers :
            (Done(h) /\ op[h] = "show" /\ key[h] # "" /\ key[h] \in DOMAIN written
                /\ ~stale[h])
                => /\ kind[h] = "entry"
                   /\ got[h] = written[key[h]]
                   /\ body[h] = EntryBody(version, key[h], written[key[h]])

C1_Witness ==
    \E h \in Handlers :
        /\ Done(h) /\ op[h] = "show" /\ key[h] = "a" /\ ~stale[h] /\ ~raced
        /\ "a" \in DOMAIN written /\ written["a"] = "x"
        /\ got[h] = "x"

\* C2 as stated: in every reachable state at most one handler is mutating the
\* map, and no handler is reading it while another is mutating it.
C2_Exclusion == Exclusion

\* C3 as stated: once concurrent updates with pairwise distinct keys have all
\* completed, the store maps each of those keys to the value its update supplied.
C3_NoLostWrites ==
    LET U == {h \in Handlers : Done(h) /\ op[h] = "update" /\ overlapped[h]}
    IN (/\ Active = {}
        /\ Cardinality(U) >= 2
        /\ \A h1, h2 \in U : h1 # h2 => key[h1] # key[h2]
        /\ \A h \in U : ~stale[h])
       => \A h \in U : key[h] \in DOMAIN data /\ data[key[h]] = val[h]

\* C4: show(k) for a non-empty key never assigned answers normally with the
\* empty value, and k is not in the store afterwards.
C4_ShowMissing ==
    \A h \in Handlers :
        (Done(h) /\ op[h] = "show" /\ key[h] # "" /\ key[h] \notin DOMAIN written)
            => /\ kind[h] = "entry"
               /\ got[h] = ""
               /\ body[h] = EntryBody(version, key[h], "")
               /\ key[h] \notin DOMAIN data
               /\ ~crashed

C4_Witness ==
    \E h \in Handlers :
        /\ Done(h) /\ op[h] = "show" /\ key[h] = "a" /\ "a" \notin DOMAIN written
        /\ DOMAIN written # {}

\* C5: every update(k, v), empty strings included, stores k -> v (until k is
\* assigned again) and answers normally.
C5_UpdateSucceeds ==
    /\ ~crashed
    /\ \A h \in Handlers :
          /\ (Assigned(h) /\ ~stale[h]) => (key[h] \in DOMAIN data /\ data[key[h]] = val[h])
          /\ (Done(h) /\ op[h] = "update") => kind[h] = "updated"

C5_Witness ==
    \E h \in Handlers :
        /\ Done(h) /\ op[h] = "update" /\ key[h] = "" /\ val[h] = "" /\ ~stale[h]
        /\ "" \in DOMAIN data /\ data[""] = ""

\* C6: an update(k, v) that runs when the last assignment to k already stored
\* v leaves the store exactly as it was.
C6_Idempotent ==
    [][\A h \in Handlers :
          (/\ pc[h] = "inassign" /\ pc'[h] # "inassign"
           /\ key[h] \in DOMAIN written /\ written[key[h]] = val[h])
              => data' = data]_vars

C6_Witness ==
    \E h \in Handlers :
        /\ Done(h) /\ op[h] = "update" /\ same[h] /\ ~stale[h]
        /\ data[key[h]] = val[h]

\* C7: the list written by show with an empty key holds every key of the store
\* with its current value, and nothing else.
C7_ListComplete ==
    ~raced =>
        \A h \in Handlers :
            (Done(h) /\ op[h] = "show" /\ key[h] = "" /\ ~stale[h])
                => /\ kind[h] = "list"
                   /\ DOMAIN acc[h] = DOMAIN written
                   /\ \A k \in DOMAIN written : acc[h][k] = written[k]
                   /\ body[h] = "Read list: " \o FormatMap(written)

C7_Witness ==
    \E h \in Handlers :
        /\ Done(h) /\ op[h] = "show" /\ key[h] = "" /\ ~stale[h] /\ ~raced
        /\ DOMAIN written = {"", "a"} /\ written[""] = "x" /\ written["a"] = "x"
        /\ body[h] = "Read list: map[:x a:x]"

\* C8 as stated: the body of show(k), k non-empty, is exactly
\* "Read entry: data[<key>] = <value>".
C8_ShowBody ==
    \A h \in Handlers :
        kind[h] = "entry" => body[h] = "Read entry: data[" \o key[h] \o "] = " \o got[h]

\* C9 as stated: the body of update(k, v) is exactly
\* "Updated: data[<key>] = <value>".
C9_UpdateBody ==
    \A h \in Handlers :
        kind[h] = "updated" => body[h] = "Updated: data[" \o key[h] \o "] = " \o val[h]

\* C10 as stated: a handler inside Fprintf holds neither the shared nor the
\* exclusive lock.
C10_NoLockWhilePrinting ==
    \A h \in Handlers : AtFprintf(h) => (h \notin rHolders /\ wHolder # h)

\* C10 amended: update prints holding no lock; show prints while it still holds
\* the shared lock; nobody prints holding the exclusive lock.
C10_LockWhilePrinting ==
    \A h \in Handlers :
        AtFprintf(h) =>
            /\ wHolder # h
            /\ op[h] = "update" => h \notin rHolders
            /\ op[h] = "show" => h \in rHolders

C10_Witness ==
    \E h1, h2 \in Handlers :
        /\ op[h1] = "update" /\ pc[h1] = "fprintf" /\ wHolder # h1
        /\ op[h2] = "show" /\ pc[h2] = "fprintf" /\ h2 \in rHolders

\* C11: concurrent updates of one key take effect in the order in which they
\* acquired the exclusive lock: whenever no handler is between Lock and the end
\* of its assignment, every key holds the value supplied by the update that
\* acquired the lock last for that key, and the store holds no entry that no
\* update supplied; of two overlapping updates of one key, the one whose
\* assignment was not followed by another one has its value in the store.
C11_LastLockerWins ==
    /\ (\A h \in Handlers : pc[h] \notin {"assign", "inassign"}) =>
          /\ DOMAIN data = DOMAIN lastLocked
          /\ \A k \in DOMAIN lastLocked : data[k] = lastLocked[k]
    /\ \A h1, h2 \in Handlers :
          (/\ h1 # h2 /\ Done(h1) /\ Done(h2)
           /\ op[h1] = "update" /\ op[h2] = "update" /\ key[h1] = key[h2]
           /\ overlapped[h1] /\ overlapped[h2] /\ ~stale[h1])
              => /\ stale[h2]
                 /\ data[key[h1]] = val[h1]

C11_Witness ==
    /\ Done(1) /\ Done(2) /\ op[1] = "update" /\ op[2] = "update"
    /\ key[1] = "a" /\ key[2] = "a" /\ val[1] = "x" /\ val[2] = ""
    /\ overlapped[1] /\ overlapped[2]
    /\ stale[2] /\ ~stale[1]
    /\ lastLocked["a"] = "x" /\ data["a"] = "x"

\* C12: under fair scheduling every handler that was started returns, a handler
\* that has returned holds neither the shared nor the exclusive lock, and the
\* lock is free whenever no handler is running.
C12_RunsToCompletion ==
    /\ \A h \in Handlers : (pc[h] \notin {"idle", "done"}) ~> Done(h)
    /\ [](\A h \in Handlers : pc[h] \in {"idle", "done"} => (h \notin rHolders /\ wHolder # h))
    /\ [](Active = {} => (wHolder = 0 /\ rHolders = {}))

C12_Witness ==
    /\ Active = {} /\ Done(1) /\ Done(2)
    /\ op[1] = "update" /\ op[2] = "show" /\ overlapped[1] /\ overlapped[2]
    /\ kind[1] = "updated" /\ kind[2] = "list"
    /\ wHolder = 0 /\ rHolders = {}

\* C13: for every non-empty key k, show(k) answers the same when k was never
\* assigned as when k was assigned the empty string: the response computed
\* from a store without k equals the one computed from that store with
\* k -> "", and every show(k) that ran in either situation wrote that response.
C13_AbsentAsEmpty ==
    LET Response(m, k) == EntryBody(version, k, Lookup(m, k))
    IN /\ \A k \in Keys \ {""} : \A m \in ArbMaps :
             k \notin DOMAIN m => Response(m, k) = Response(MapAssign(m, k, ""), k)
       /\ \A h \in Handlers :
             (/\ Done(h) /\ op[h] = "show" /\ key[h] # "" /\ ~stale[h]
              /\ (key[h] \notin DOMAIN written \/ written[key[h]] = ""))
                 => /\ body[h] = Response(data, key[h])
                    /\ body[h] = Response(EmptyMap, key[h])
                    /\ body[h] = Response(MapAssign(EmptyMap, key[h], ""), key[h])

C13_Witness ==
    \E h \in Handlers :
        /\ Done(h) /\ op[h] = "show" /\ key[h] = "a" /\ ~stale[h]
        /\ "a" \in DOMAIN data /\ data["a"] = ""
        /\ body[h] = "Read entry: s.data[a] = "
        /\ body[h] = EntryBody(version, "a", Lookup(EmptyMap, "a"))

\* C14 as stated: the list is a consistent snapshot.  While a handler walks
\* the map to render the list no assignment takes effect, and the contents it
\* renders are the contents the store had at one instant of its request (at
\* some instant of the walk, when nothing was assigned between the start of
\* the request and the start of the walk).
C14_ConsistentSnapshot ==
    [][\A h \in Handlers :
          /\ pc[h] = "inrange" => data' = data
          /\ (pc[h] = "inrange" /\ pc'[h] # "inrange")
                => (early[h] \/ acc'[h] \in snaps[h])]_vars

\* C15 as stated: in every interleaving the response of update(k, v) reports
\* the value v that the same request supplied (stated here for the interleavings
\* in which no two accesses to the map overlap, which are among them).
C15_ReportsOwnValue ==
    ~raced =>
        \A h \in Handlers :
            kind[h] = "updated" => body[h] = UpdateBody(version, key[h], val[h])

\* C16: the assignment of update(k, v) leaves the set of the other keys and
\* their values as they were, no statement of show changes the store, and the
\* store changes in no other way.
C16_Frame ==
    [][/\ \A h \in Handlers :
             (op[h] = "update" /\ pc[h] = "inassign" /\ pc'[h] # "inassign")
                => /\ DOMAIN data' \ {key[h]} = DOMAIN data \ {key[h]}
                   /\ \A x \in DOMAIN data \ {key[h]} : data'[x] = data[x]
       /\ \A h \in Handlers :
             (op[h] = "show" /\ pc[h] \notin {"idle", "done"}
                 /\ (pc'[h] # pc[h] \/ acc'[h] # acc[h] \/ body'[h] # body[h]))
                => data' = data
       /\ data' # data =>
             \E h \in Handlers :
                 op[h] = "update" /\ pc[h] = "inassign" /\ pc'[h] # "inassign"]_vars

C16_Witness ==
    \E h1, h2 \in Handlers :
        /\ Done(h1) /\ op[h1] = "update" /\ key[h1] = "a" /\ val[h1] = "" /\ ~stale[h1]
        /\ Done(h2) /\ op[h2] = "show" /\ key[h2] = "" /\ ~stale[h2]
        /\ DOMAIN data = {"", "a"} /\ data[""] = "x" /\ data["a"] = ""
        /\ acc[h2] = data

\* C17: the store starts empty, a key is in the store exactly if some update
\* has assigned it, and no step removes a key from the store.
C17_KeysOnlyGrow ==
    /\ data = EmptyMap
    /\ [](DOMAIN data = DOMAIN written)
    /\ [][DOMAIN data \subseteq DOMAIN data']_vars

C17_Witness ==
    \E h \in Handlers :
        /\ Done(h) /\ op[h] = "update" /\ key[h] = "a" /\ stale[h]
        /\ DOMAIN data = {"", "a"} /\ DOMAIN written = {"", "a"}
        /\ data["a"] # val[h]
====
